---- MODULE Spec2Model ----
(***************************************************************************)
(* Model of src/src/auth.ts of HFS: the SRP verification cache (srpStep1,  *)
(* srpCheck), the login state kept in the koa context (getCurrentUsername, *)
(* setLoggedIn) and the invalidSessions set.                               *)
(*                                                                         *)
(* A JavaScript string is a sequence of one-character strings, so that     *)
(* concatenation (username + password + account.srp), split('|') and the   *)
(* decimal encoding of big integers are computed, not assumed.             *)
(***************************************************************************)
EXTENDS Integers, Sequences, FiniteSets, TLC

VARIABLES
    accounts,        \* the account store read by getAccount: normalized username -> Account
    srpChanges,      \* how many times the store replaced an account's srp
    cache,           \* const cache: any = {}   key -> index of the promise in hs
    hs,              \* the promises created by srpCheck's creator, in creation order
    calls,           \* the srpCheck invocations made so far, in call order
    now,             \* time in seconds
    session,         \* ctx.session
    stateAccount,    \* ctx.state.account
    invalidSessions, \* export const invalidSessions = new Set<string>()
    log              \* the setLoggedIn and invalidSessions.add calls made so far, and how each ended

vars == <<accounts, srpChanges, cache, hs, calls, now, session, stateAccount, invalidSessions, log>>

-----------------------------------------------------------------------------
(* Bounds of the model *)

MaxCalls == 2        \* srpCheck invocations in one behaviour
MaxSrpChanges == 1   \* changes of a stored srp in one behaviour
MaxSessionOps == 4   \* login, logout and invalidation operations in one behaviour
MaxTime == 62        \* last second of the timed specification
MaxLoginOps == 2     \* login, logout and invalidation operations beside the srpCheck calls

(* Program constants *)

EVICT_AFTER == 60            \* setTimeout(() => delete cache[k], 60_000), in seconds
HTTP_NOT_ACCEPTABLE == 406
HTTP_SERVER_ERROR == 500

-----------------------------------------------------------------------------
(* JavaScript values *)

Undefined == <<"undefined">>     \* JS undefined, where a string may stand
False == <<"false">>             \* the literal false passed to setLoggedIn
Falsy(s) == s = Undefined \/ s = <<>>

NoAccount == [username |-> Undefined, srp |-> Undefined]   \* getAccount found nothing

Digits == <<"0", "1", "2", "3", "4", "5", "6", "7", "8", "9">>
IsDigit(c) == \E i \in 1..10 : Digits[i] = c
DigitVal(c) == (CHOOSE i \in 1..10 : Digits[i] = c) - 1

\* String(n) of a non-negative big integer: its decimal digits
RECURSIVE ToDecimal(_)
ToDecimal(n) == IF n < 10 THEN <<Digits[n + 1]>>
                ELSE Append(ToDecimal(n \div 10), Digits[(n % 10) + 1])

\* BigInt(s) throws a SyntaxError on a string that is no integer literal
IsNumeric(s) == \A i \in 1..Len(s) : IsDigit(s[i])

RECURSIVE BigInt(_)
BigInt(s) == IF s = <<>> THEN 0
             ELSE BigInt(SubSeq(s, 1, Len(s) - 1)) * 10 + DigitVal(s[Len(s)])

\* s.split(sep): the parts of s between the occurrences of sep
RECURSIVE split(_, _)
split(s, sep) ==
    IF \E i \in 1..Len(s) : s[i] = sep
    THEN LET i == CHOOSE j \in 1..Len(s) : s[j] = sep /\ \A m \in 1..(j - 1) : s[m] # sep
         IN  <<SubSeq(s, 1, i - 1)>> \o split(SubSeq(s, i + 1, Len(s)), sep)
    ELSE <<s>>

\* array destructuring: a missing element is undefined
At(parts, i) == IF i <= Len(parts) THEN parts[i] ELSE Undefined

-----------------------------------------------------------------------------
(* The account store (./perm) *)

Lower(c) == IF c = "A" THEN "a" ELSE IF c = "B" THEN "b" ELSE c
normalizeUsername(username) == [i \in 1..Len(username) |-> Lower(username[i])]

getAccount(username) ==
    IF normalizeUsername(username) \in DOMAIN accounts
    THEN accounts[normalizeUsername(username)]
    ELSE NoAccount

-----------------------------------------------------------------------------
(* SRP-6a (tssrp6a, ./srp): a small one-way arithmetic stands for the group *)

CharCode(c) == IF c = "a" THEN 1 ELSE IF c = "b" THEN 2 ELSE IF c = "A" THEN 3
               ELSE IF c = "B" THEN 4 ELSE 0

\* H: a digest of six decimal digits
RECURSIVE HashChars(_)
HashChars(s) == IF s = <<>> THEN 0
                ELSE (HashChars(SubSeq(s, 1, Len(s) - 1)) * 10 + CharCode(s[Len(s)])) % 1000000

\* x = H(salt, H(I ":" P)), the client's private key
computeX(I, P, salt) == HashChars(I \o <<":">> \o P) * 100 + (salt % 100)

\* v = g^x mod N
computeVerifier(x) == 2 * x + 1

\* the stored "<salt>|<verifier>" of an identity and password
MakeSrp(I, P, salt) ==
    ToDecimal(salt) \o <<"|">> \o ToDecimal(computeVerifier(computeX(I, P, salt)))

\* srpClientPart(username, password, salt, pubKey) then step1.step2(client.A, client.M1):
\* the proof is accepted iff the client's key yields the server's verifier
step2Accepts(username, password, salt, verifier) ==
    computeVerifier(computeX(username, password, BigInt(salt))) = BigInt(verifier)

-----------------------------------------------------------------------------
(* srpStep1, up to its first suspension *)

\* as srpStep1, with the two throw statements exchanged
srpStep1_Exchanged(account) ==
    IF Falsy(account.srp)
    THEN [err |-> "malformed account", status |-> 0,
          salt |-> Undefined, verifier |-> Undefined]
    ELSE LET parts == split(account.srp, "|")
             salt == At(parts, 1)
             verifier == At(parts, 2)
         IN  IF Falsy(salt) \/ Falsy(verifier)
             THEN [err |-> "HTTP_NOT_ACCEPTABLE", status |-> HTTP_NOT_ACCEPTABLE,
                   salt |-> salt, verifier |-> verifier]
             ELSE IF ~IsNumeric(salt) \/ ~IsNumeric(verifier)
             THEN [err |-> "SyntaxError", status |-> 0,
                   salt |-> salt, verifier |-> verifier]
             ELSE [err |-> "", status |-> 0, salt |-> salt, verifier |-> verifier]

srpStep1(account) ==
    IF Falsy(account.srp)
    THEN [err |-> "HTTP_NOT_ACCEPTABLE", status |-> HTTP_NOT_ACCEPTABLE,
          salt |-> Undefined, verifier |-> Undefined]
    ELSE LET parts == split(account.srp, "|")
             salt == At(parts, 1)
             verifier == At(parts, 2)
         IN  IF Falsy(salt) \/ Falsy(verifier)
             THEN [err |-> "malformed account", status |-> 0,
                   salt |-> salt, verifier |-> verifier]
             ELSE IF ~IsNumeric(salt) \/ ~IsNumeric(verifier)
             THEN [err |-> "SyntaxError", status |-> 0,
                   salt |-> salt, verifier |-> verifier]
             ELSE [err |-> "", status |-> 0, salt |-> salt, verifier |-> verifier]

-----------------------------------------------------------------------------
(* The inputs of the model *)

Alice == <<"a">>
Abe == <<"a", "b">>
AliceUpper == <<"A">>
B == <<"b">>
BB == <<"b", "b">>

\* passwords that end like the head of an srp string: "bb1|20440" and "bb1|24040"
BBHead == <<"b", "b", "1", "|", "2", "0", "4", "4", "0">>
BBHeadAbe == <<"b", "b", "1", "|", "2", "4", "0", "4", "0">>

\* (username, password) pairs passed to srpCheck: Alice + BB and Abe + B concatenate alike
CheckInputs == {<<Alice, <<>>>>, <<Alice, B>>, <<Alice, BB>>, <<Abe, B>>}

\* the pairs passed to srpCheck over a store where Alice's srp is malformed:
\* Alice + BBHead + "3" and Abe + B + "1|204403" concatenate alike, and so do
\* Alice + BBHeadAbe + "3" and Abe + B + "1|240403"
MalformedInputs == {<<Alice, B>>, <<Abe, B>>, <<Alice, BBHead>>, <<Alice, BBHeadAbe>>}
LoginUsernames == {Alice, AliceUpper, Abe}

OnlySalt == <<"3">>                       \* "onlysalt": no '|', no verifier
AliceSrp == MakeSrp(Alice, BB, 1)         \* Alice's verifier for the password "bb"
AliceNewSrp == MakeSrp(Alice, B, 2)       \* Alice's verifier after her password became "b"

NoSalt == <<"|", "3">>                    \* "|3": an empty salt
NoVerifier == <<"3", "|">>                \* "3|": an empty verifier
AbeSrp == MakeSrp(Abe, B, 1)             \* Abe's verifier for the password "b"

Account(username, srp) == [username |-> username, srp |-> srp]

\* what the store may hold: Alice with a verifier, a malformed srp or none; Abe absent,
\* or holding a copy of Alice's srp string
StoreChoices ==
    {[u \in {Alice, Abe} |-> IF u = Alice THEN a ELSE b] :
        a \in {Account(Alice, AliceSrp), Account(Alice, OnlySalt), Account(Alice, Undefined)},
        b \in {NoAccount, Account(Abe, AliceSrp)}}

-----------------------------------------------------------------------------
(* srpCheck *)

\* createHash('sha256').update(...).digest("hex"), taken as injective
Sha256(s) == <<"sha256:">> \o s

\* as CacheKey, without account.srp in the hashed string
CacheKey_WithoutSrp(username, password, account) == Sha256(username \o password)

CacheKey(username, password, account) == Sha256(username \o password \o account.srp)

\* as Rejects, without the test of the password
Rejects_IgnoresPassword(account, password) == Falsy(account.srp)

\* if (!account?.srp || !password) return
Rejects(account, password) == Falsy(account.srp) \/ Falsy(password)

InFlight(h) == h.phase \in {"step1", "step2"}
Settled(h) == h.phase \in {"resolved", "rejected"}

\* return good ? account : undefined, once the awaited promise has settled
Outcome(h, account) ==
    IF h.phase = "rejected" THEN [status |-> "threw", err |-> h.err, result |-> NoAccount]
    ELSE IF h.phase = "resolved"
    THEN [status |-> "returned", err |-> "", result |-> IF h.good = 1 THEN account ELSE NoAccount]
    ELSE [status |-> "pending", err |-> "", result |-> NoAccount]

\* the promise the creator returns: rejected at once when srpStep1 throws. step1Calls and
\* step2Calls count the calls of srpStep1 made for it and of step2 made on its session
NewHandshake(k, username, password, account) ==
    LET s1 == srpStep1(account)
    IN  [k |-> k, username |-> username, password |-> password, srp |-> account.srp,
         salt |-> s1.salt, verifier |-> s1.verifier,
         phase |-> IF s1.err = "" THEN "step1" ELSE "rejected",
         err |-> s1.err, good |-> 0, created |-> now, timer |-> "none", due |-> 0,
         step1Calls |-> 1, step2Calls |-> 0]

\* one srpCheck invocation; pendingAt and firedAt record, at the time of the call, the
\* earlier calls still awaiting and the promises whose eviction timer had fired
Call(username, password, account, h, out) ==
    [username |-> username, password |-> password, account |-> account, h |-> h,
     status |-> out.status, err |-> out.err, result |-> out.result,
     at |-> now,
     pendingAt |-> {j \in 1..Len(calls) : calls[j].status = "pending"},
     firedAt |-> {i \in 1..Len(hs) : hs[i].timer = "fired"}]

\* getOrSet(cache, k, creator) of ./cross: the entry under k, created when absent
getOrSet(k, created) ==
    IF k \in DOMAIN cache
    THEN [h |-> cache[k], cache |-> cache, hs |-> hs]
    ELSE [h |-> Len(hs) + 1,
          cache |-> [x \in DOMAIN cache \cup {k} |-> IF x = k THEN Len(hs) + 1 ELSE cache[x]],
          hs |-> Append(hs, created)]

srpCheck(username, password) ==
    /\ Len(calls) < MaxCalls
    /\ LET account == getAccount(username)
       IN  IF Rejects(account, password)
           THEN /\ calls' = Append(calls, Call(username, password, account, 0,
                                [status |-> "returned", err |-> "", result |-> NoAccount]))
                /\ UNCHANGED <<cache, hs>>
           ELSE LET k == CacheKey(username, password, account)
                    got == getOrSet(k, NewHandshake(k, username, password, account))
                    out == Outcome(got.hs[got.h], account)
                IN  /\ cache' = got.cache
                    /\ hs' = got.hs
                    /\ calls' = Append(calls, Call(username, password, account, got.h, out))
    /\ UNCHANGED <<accounts, srpChanges, now, session, stateAccount, invalidSessions, log>>

\* as ClientResolved, with setTimeout(delete cache[k], 60_000): the entry is deleted at
\* once and no callback is scheduled
ClientResolved_DeletesAtOnce(i) ==
    /\ i \in 1..Len(hs)
    /\ hs[i].phase = "step1"
    /\ hs' = [hs EXCEPT ![i].phase = "step2", ![i].step2Calls = @ + 1]
    /\ cache' = [x \in DOMAIN cache \ {hs[i].k} |-> cache[x]]
    /\ UNCHANGED <<accounts, srpChanges, calls, now, session, stateAccount,
                   invalidSessions, log>>

\* as ClientResolved, with a creator that calls step1.step2 once for each of its two handlers
ClientResolved_CallsStep2Twice(i) ==
    /\ i \in 1..Len(hs)
    /\ hs[i].phase = "step1"
    /\ hs' = [hs EXCEPT ![i].phase = "step2", ![i].timer = "armed",
                        ![i].due = now + EVICT_AFTER, ![i].step2Calls = @ + 2]
    /\ UNCHANGED <<accounts, srpChanges, cache, calls, now, session, stateAccount,
                   invalidSessions, log>>

\* await srpStep1(account) and await srpClientPart(...) complete: the creator schedules the
\* eviction and starts step2
ClientResolved(i) ==
    /\ i \in 1..Len(hs)
    /\ hs[i].phase = "step1"
    /\ hs' = [hs EXCEPT ![i].phase = "step2", ![i].timer = "armed",
                        ![i].due = now + EVICT_AFTER, ![i].step2Calls = @ + 1]
    /\ UNCHANGED <<accounts, srpChanges, cache, calls, now, session, stateAccount,
                   invalidSessions, log>>

\* as Step2Settled, with a continuation that takes the username of an accepted proof out of
\* invalidSessions
Step2Settled_ClearsInvalid(i) ==
    /\ i \in 1..Len(hs)
    /\ hs[i].phase = "step2"
    /\ LET good == IF step2Accepts(hs[i].username, hs[i].password, hs[i].salt, hs[i].verifier)
                   THEN 1 ELSE 0
           done == [hs[i] EXCEPT !.phase = "resolved", !.good = good]
       IN  /\ hs' = [hs EXCEPT ![i] = done]
           /\ calls' = [c \in 1..Len(calls) |->
                          IF calls[c].h = i /\ calls[c].status = "pending"
                          THEN [calls[c] EXCEPT
                                  !.status = Outcome(done, calls[c].account).status,
                                  !.result = Outcome(done, calls[c].account).result]
                          ELSE calls[c]]
           /\ invalidSessions' = IF good = 1 THEN invalidSessions \ {hs[i].username}
                                 ELSE invalidSessions
    /\ UNCHANGED <<accounts, srpChanges, cache, now, session, stateAccount, log>>

\* step1.step2(client.A, client.M1).then(() => 1, () => 0) settles, and every srpCheck
\* awaiting the promise returns
Step2Settled(i) ==
    /\ i \in 1..Len(hs)
    /\ hs[i].phase = "step2"
    /\ LET good == IF step2Accepts(hs[i].username, hs[i].password, hs[i].salt, hs[i].verifier)
                   THEN 1 ELSE 0
           done == [hs[i] EXCEPT !.phase = "resolved", !.good = good]
       IN  /\ hs' = [hs EXCEPT ![i] = done]
           /\ calls' = [c \in 1..Len(calls) |->
                          IF calls[c].h = i /\ calls[c].status = "pending"
                          THEN [calls[c] EXCEPT
                                  !.status = Outcome(done, calls[c].account).status,
                                  !.result = Outcome(done, calls[c].account).result]
                          ELSE calls[c]]
    /\ UNCHANGED <<accounts, srpChanges, cache, now, session, stateAccount,
                   invalidSessions, log>>

Armed == {i \in 1..Len(hs) : hs[i].timer = "armed"}

\* as TimerFired, with a callback that also settles the calls awaiting the promise, which
\* return undefined
TimerFired_DropsCallers(i) ==
    /\ i \in Armed
    /\ \A j \in Armed : hs[j].due >= hs[i].due
    /\ now' = IF now >= hs[i].due THEN now ELSE hs[i].due
    /\ cache' = [x \in DOMAIN cache \ {hs[i].k} |-> cache[x]]
    /\ hs' = [hs EXCEPT ![i].timer = "fired"]
    /\ calls' = [c \in 1..Len(calls) |->
                   IF calls[c].h = i /\ calls[c].status = "pending"
                   THEN [calls[c] EXCEPT !.status = "returned", !.result = NoAccount]
                   ELSE calls[c]]
    /\ UNCHANGED <<accounts, srpChanges, session, stateAccount, invalidSessions, log>>

\* as TimerFired, with setInterval for setTimeout: the callback stays scheduled and runs
\* again every 60 seconds
TimerFired_Repeats(i) ==
    /\ i \in Armed
    /\ \A j \in Armed : hs[j].due >= hs[i].due
    /\ now' = IF now >= hs[i].due THEN now ELSE hs[i].due
    /\ cache' = [x \in DOMAIN cache \ {hs[i].k} |-> cache[x]]
    /\ hs' = [hs EXCEPT ![i].due = @ + EVICT_AFTER]
    /\ UNCHANGED <<accounts, srpChanges, calls, session, stateAccount, invalidSessions, log>>

\* the timer callback, delete cache[k], run when its 60 seconds have passed: timers run in
\* the order they fall due, and time moves on to that moment if it has not come yet
TimerFired(i) ==
    /\ i \in Armed
    /\ \A j \in Armed : hs[j].due >= hs[i].due
    /\ now' = IF now >= hs[i].due THEN now ELSE hs[i].due
    /\ cache' = [x \in DOMAIN cache \ {hs[i].k} |-> cache[x]]
    /\ hs' = [hs EXCEPT ![i].timer = "fired"]
    /\ UNCHANGED <<accounts, srpChanges, calls, session, stateAccount, invalidSessions, log>>

\* one second passes; a timer that is due runs before time goes on
Tick ==
    /\ now < MaxTime
    /\ \A i \in Armed : hs[i].due > now
    /\ now' = now + 1
    /\ UNCHANGED <<accounts, srpChanges, cache, hs, calls, session, stateAccount,
                   invalidSessions, log>>

\* a caller other than srpCheck passes an account of the store to srpStep1; the log keeps
\* what was thrown: threw is the status the thrown value carries, 0 when it carries none
\* or nothing was thrown
Step1Logged(username, err, threw) ==
    [op |-> "srpStep1", username |-> username, err |-> err, threw |-> threw]

srpStep1Called(username) ==
    /\ Len(log) < MaxSessionOps
    /\ getAccount(username) # NoAccount
    /\ LET s1 == srpStep1(getAccount(username))
       IN  log' = Append(log, Step1Logged(username, s1.err, s1.status))
    /\ UNCHANGED <<accounts, srpChanges, cache, hs, calls, now, session, stateAccount,
                   invalidSessions>>

\* the account store replaces an account's srp (a credential change)
setSrp(username, srp) ==
    /\ srpChanges < MaxSrpChanges
    /\ ~Falsy(accounts[username].srp)
    /\ accounts[username].srp # srp
    /\ accounts' = [accounts EXCEPT ![username] = Account(username, srp)]
    /\ srpChanges' = srpChanges + 1
    /\ UNCHANGED <<cache, hs, calls, now, session, stateAccount, invalidSessions, log>>

-----------------------------------------------------------------------------
(* The login state *)

getCurrentUsername ==
    IF stateAccount = NoAccount \/ Falsy(stateAccount.username) THEN <<>>
    ELSE stateAccount.username

\* threw: the status of the error thrown by ctx.throw, 0 when the call returned
Logged(op, username, threw) == [op |-> op, username |-> username, threw |-> threw]

\* as setLoggedIn, with invalidSessions.clear() for invalidSessions.delete(username)
setLoggedIn_ClearsAll(username) ==
    /\ Len(log) < MaxSessionOps
    /\ IF ~session.present
       THEN /\ log' = Append(log, Logged("setLoggedIn", username, HTTP_SERVER_ERROR))
            /\ UNCHANGED <<session, stateAccount, invalidSessions>>
       ELSE IF username = False
       THEN /\ session' = [session EXCEPT !.username = Undefined]
            /\ log' = Append(log, Logged("setLoggedIn", username, 0))
            /\ UNCHANGED <<stateAccount, invalidSessions>>
       ELSE /\ invalidSessions' = {}
            /\ session' = [session EXCEPT !.username = normalizeUsername(username)]
            /\ stateAccount' = getAccount(username)
            /\ log' = Append(log, Logged("setLoggedIn", username, 0))
    /\ UNCHANGED <<accounts, srpChanges, cache, hs, calls, now>>

\* as setLoggedIn, with a logout that throws when the session holds no username
setLoggedIn_LogoutThrows(username) ==
    /\ Len(log) < MaxSessionOps
    /\ IF ~session.present \/ (username = False /\ session.username = Undefined)
       THEN /\ log' = Append(log, Logged("setLoggedIn", username, HTTP_SERVER_ERROR))
            /\ UNCHANGED <<session, stateAccount, invalidSessions>>
       ELSE IF username = False
       THEN /\ session' = [session EXCEPT !.username = Undefined]
            /\ log' = Append(log, Logged("setLoggedIn", username, 0))
            /\ UNCHANGED <<stateAccount, invalidSessions>>
       ELSE /\ invalidSessions' = invalidSessions \ {username}
            /\ session' = [session EXCEPT !.username = normalizeUsername(username)]
            /\ stateAccount' = getAccount(username)
            /\ log' = Append(log, Logged("setLoggedIn", username, 0))
    /\ UNCHANGED <<accounts, srpChanges, cache, hs, calls, now>>

\* as setLoggedIn, with invalidSessions.delete(username) moved above the test of ctx.session
setLoggedIn_DeletesFirst(username) ==
    /\ Len(log) < MaxSessionOps
    /\ IF ~session.present
       THEN /\ log' = Append(log, Logged("setLoggedIn", username, HTTP_SERVER_ERROR))
            /\ invalidSessions' = invalidSessions \ {username}
            /\ UNCHANGED <<session, stateAccount>>
       ELSE IF username = False
       THEN /\ session' = [session EXCEPT !.username = Undefined]
            /\ log' = Append(log, Logged("setLoggedIn", username, 0))
            /\ UNCHANGED <<stateAccount, invalidSessions>>
       ELSE /\ invalidSessions' = invalidSessions \ {username}
            /\ session' = [session EXCEPT !.username = normalizeUsername(username)]
            /\ stateAccount' = getAccount(username)
            /\ log' = Append(log, Logged("setLoggedIn", username, 0))
    /\ UNCHANGED <<accounts, srpChanges, cache, hs, calls, now>>

setLoggedIn(username) ==
    /\ Len(log) < MaxSessionOps
    /\ IF ~session.present
       THEN /\ log' = Append(log, Logged("setLoggedIn", username, HTTP_SERVER_ERROR))
            /\ UNCHANGED <<session, stateAccount, invalidSessions>>
       ELSE IF username = False
       THEN /\ session' = [session EXCEPT !.username = Undefined]
            /\ log' = Append(log, Logged("setLoggedIn", username, 0))
            /\ UNCHANGED <<stateAccount, invalidSessions>>
       ELSE /\ invalidSessions' = invalidSessions \ {username}
            /\ session' = [session EXCEPT !.username = normalizeUsername(username)]
            /\ stateAccount' = getAccount(username)
            /\ log' = Append(log, Logged("setLoggedIn", username, 0))
    /\ UNCHANGED <<accounts, srpChanges, cache, hs, calls, now>>

\* invalidSessions.add(username), done by the code that changes an account
invalidate(username) ==
    /\ Len(log) < MaxSessionOps
    /\ invalidSessions' = invalidSessions \cup {username}
    /\ log' = Append(log, Logged("invalidate", username, 0))
    /\ UNCHANGED <<accounts, srpChanges, cache, hs, calls, now, session, stateAccount>>

-----------------------------------------------------------------------------
(* Specifications *)

InitStore ==
    /\ accounts \in StoreChoices
    /\ srpChanges = 0

InitCache ==
    /\ cache = <<>>
    /\ hs = <<>>
    /\ calls = <<>>
    /\ now = 0

\* the verification cache, with time passing from one eviction to the next
Init ==
    /\ InitStore
    /\ InitCache
    /\ session = [present |-> TRUE, username |-> Undefined]
    /\ stateAccount = NoAccount
    /\ invalidSessions = {}
    /\ log = <<>>

Next ==
    \/ \E in \in CheckInputs : srpCheck(in[1], in[2])
    \/ \E i \in 1..MaxCalls : ClientResolved(i)
    \/ \E i \in 1..MaxCalls : Step2Settled(i)
    \/ \E i \in 1..MaxCalls : TimerFired(i)
    \/ \E s \in {AliceSrp, AliceNewSrp} : setSrp(Alice, s)

Spec == Init /\ [][Next]_vars

\* the verification cache second by second: one account, one (username, password), the
\* clock started by the first call and the later calls made 10 s and 61 s after it
CallInstants == {10, 61}

InitTimed ==
    /\ accounts \in {st \in StoreChoices : st[Abe] = NoAccount /\ st[Alice].srp # Undefined}
    /\ srpChanges = 0
    /\ InitCache
    /\ session = [present |-> TRUE, username |-> Undefined]
    /\ stateAccount = NoAccount
    /\ invalidSessions = {}
    /\ log = <<>>

NextTimed ==
    \/ (IF calls = <<>> THEN TRUE ELSE now - calls[1].at \in CallInstants)
          /\ srpCheck(Alice, BB)
    \/ \E i \in 1..MaxCalls : ClientResolved(i)
    \/ \E i \in 1..MaxCalls : Step2Settled(i)
    \/ \E i \in 1..MaxCalls : TimerFired(i)
    \/ calls # <<>> /\ Tick

SpecTimed == InitTimed /\ [][NextTimed]_vars

\* the verification cache over a store where Alice's srp is malformed
InitMalformed ==
    /\ accounts \in {[u \in {Alice, Abe} |-> IF u = Alice THEN Account(Alice, OnlySalt) ELSE b] :
                        b \in {NoAccount, Account(Abe, AliceSrp), Account(Abe, AbeSrp)}}
    /\ srpChanges = 0
    /\ InitCache
    /\ session = [present |-> TRUE, username |-> Undefined]
    /\ stateAccount = NoAccount
    /\ invalidSessions = {}
    /\ log = <<>>

NextMalformed ==
    \/ \E in \in MalformedInputs : srpCheck(in[1], in[2])
    \/ \E i \in 1..MaxCalls : ClientResolved(i)
    \/ \E i \in 1..MaxCalls : Step2Settled(i)
    \/ \E i \in 1..MaxCalls : TimerFired(i)

SpecMalformed == InitMalformed /\ [][NextMalformed]_vars

\* srpStep1 called on the accounts of a store: Alice's srp well-formed, malformed, empty or
\* absent, Abe without account or without srp
Step1Srps == {AliceSrp, OnlySalt, NoSalt, NoVerifier, <<>>, Undefined}

InitStep1 ==
    /\ accounts \in {[u \in {Alice, Abe} |-> IF u = Alice THEN Account(Alice, a) ELSE b] :
                        a \in Step1Srps, b \in {NoAccount, Account(Abe, Undefined)}}
    /\ srpChanges = 0
    /\ InitCache
    /\ session = [present |-> TRUE, username |-> Undefined]
    /\ stateAccount = NoAccount
    /\ invalidSessions = {}
    /\ log = <<>>

NextStep1 == \E u \in {Alice, Abe} : srpStep1Called(u)

SpecStep1 == InitStep1 /\ [][NextStep1]_vars

\* a request that verifies Alice's password and logs her in, while she may be invalidated
InitLogin ==
    /\ accounts \in {st \in StoreChoices : st[Abe] = NoAccount}
    /\ srpChanges = 0
    /\ InitCache
    /\ session = [present |-> TRUE, username |-> Undefined]
    /\ stateAccount = NoAccount
    /\ invalidSessions = {}
    /\ log = <<>>

NextLogin ==
    \/ \E password \in {B, BB} : srpCheck(Alice, password)
    \/ \E i \in 1..MaxCalls : ClientResolved(i)
    \/ \E i \in 1..MaxCalls : Step2Settled(i)
    \/ Len(log) < MaxLoginOps /\ invalidate(Alice)
    \/ Len(log) < MaxLoginOps /\ \E u \in {Alice, False} : setLoggedIn(u)

SpecLogin == InitLogin /\ [][NextLogin]_vars

\* the login state of one request
InitSession ==
    /\ InitStore
    /\ InitCache
    /\ session \in {[present |-> b, username |-> Undefined] : b \in BOOLEAN}
    /\ stateAccount = NoAccount
    /\ invalidSessions = {}
    /\ log = <<>>

NextSession ==
    \/ \E u \in LoginUsernames \cup {False} : setLoggedIn(u)
    \/ \E u \in LoginUsernames : invalidate(u)

SpecSession == InitSession /\ [][NextSession]_vars

-----------------------------------------------------------------------------
(* Properties of the verification cache *)

CallIds == 1..Len(calls)
HandshakeIds == 1..Len(hs)

\* two calls with the same username and password, made while the stored srp was the same
SameAttempt(i, j) ==
    /\ calls[i].username = calls[j].username
    /\ calls[i].password = calls[j].password
    /\ calls[i].account = calls[j].account

SameOutcome(i, j) ==
    /\ calls[i].status = calls[j].status
    /\ calls[i].err = calls[j].err
    /\ calls[i].result = calls[j].result

\* the password matches the verifier stored in srp, for the identity username
Matches(username, password, srp) ==
    LET s1 == srpStep1(Account(username, srp))
    IN  s1.err = "" /\ step2Accepts(username, password, s1.salt, s1.verifier)

WellFormed(srp) == srpStep1(Account(Alice, srp)).err = ""

\* C1 as stated: calls with the same username and password, each made while the earlier ones
\* were still awaiting and the srp was unchanged, run one handshake and get one outcome.
C1_OneHandshakeWhilePending ==
    \A i, j \in CallIds :
        (i < j /\ SameAttempt(i, j) /\ i \in calls[j].pendingAt)
            => calls[j].h = calls[i].h /\ (calls[j].status = "pending" \/ SameOutcome(i, j))

\* C1 amended: ... and made before the eviction timer of the entry has fired: the later
\* call joins the promise of the earlier one (one srpStep1, one step2), no call is left
\* awaiting a settled promise, and both get the same outcome.
C1_OneHandshakeWhileCached ==
    \A i, j \in CallIds :
        (i < j /\ SameAttempt(i, j) /\ i \in calls[j].pendingAt
               /\ calls[i].h \notin calls[j].firedAt)
            => /\ calls[j].h = calls[i].h
               /\ calls[i].status = "pending" <=> ~Settled(hs[calls[i].h])
               /\ calls[j].status = "pending" <=> ~Settled(hs[calls[j].h])
               /\ SameOutcome(i, j)

\* two calls for Alice's right password shared one handshake and both got her account
C1_Witness ==
    /\ Len(calls) = 2 /\ Len(hs) = 1
    /\ SameAttempt(1, 2) /\ 1 \in calls[2].pendingAt
    /\ calls[1].status = "returned" /\ calls[2].status = "returned"
    /\ calls[1].result = Account(Alice, AliceSrp) /\ calls[2].result = Account(Alice, AliceSrp)

\* C2: over accounts with a well-formed srp, a call that has returned gave the account
\* exactly when the password matches the account's verifier, and undefined otherwise.
C2_VerifyCorrect ==
    (\A i \in CallIds : calls[i].account # NoAccount /\ WellFormed(calls[i].account.srp))
        => \A i \in CallIds :
              calls[i].status = "returned"
                  => IF Matches(calls[i].username, calls[i].password, calls[i].account.srp)
                     THEN calls[i].result = calls[i].account
                     ELSE calls[i].result = NoAccount

\* C3 as stated: never two handshakes in flight for one fingerprint.
C3_OneInFlight ==
    \A i, j \in HandshakeIds :
        (i < j /\ hs[i].k = hs[j].k) => ~(InFlight(hs[i]) /\ InFlight(hs[j]))

\* C3 amended: two handshakes are in flight for one fingerprint only after the eviction
\* timer of the older one has fired while it was still pending.
C3_OneInFlightUnlessEvicted ==
    \A i, j \in HandshakeIds :
        (i < j /\ hs[i].k = hs[j].k /\ InFlight(hs[i]) /\ InFlight(hs[j]))
            => hs[i].timer = "fired"

\* a second call found the entry of a pending handshake and started no second one
C3_Witness ==
    /\ Len(calls) = 2 /\ Len(hs) = 1
    /\ calls[1].h = 1 /\ calls[2].h = 1
    /\ InFlight(hs[1]) /\ 1 \in calls[2].pendingAt

\* C4: once every handshake has settled and every scheduled eviction has run, no entry
\* that srpCheck created is left in the cache.
C4_EvictedWhenQuiescent ==
    (\A i \in HandshakeIds : Settled(hs[i]) /\ hs[i].timer # "armed") => DOMAIN cache = {}


-----------------------------------------------------------------------------
(* Properties of the login state *)

\* the operation that led to this state
LastOp == log[Len(log)]
Stepped == Len(log') = Len(log) + 1
Done == log'[Len(log')]

Login(username) == Logged("setLoggedIn", username, 0)
Logout == Logged("setLoggedIn", False, 0)
Invalidated(username) == Logged("invalidate", username, 0)

\* C5: right after a successful setLoggedIn(ctx, username) with a string username, the
\* identity stored in the session is not in invalidSessions.
C5_FreshLoginNotInvalid ==
    (log # <<>> /\ LastOp.op = "setLoggedIn" /\ LastOp.threw = 0 /\ LastOp.username # False)
        => session.username \notin invalidSessions

\* C6: invalidSessions.add(u) puts u in the set; a successful setLoggedIn(ctx, u) takes u
\* out of it and leaves the membership of every other username as it was.
C6_InvalidationRoundTrip ==
    [][Stepped =>
          /\ Done.op = "invalidate" => Done.username \in invalidSessions'
          /\ (Done.op = "setLoggedIn" /\ Done.threw = 0 /\ Done.username # False)
                => /\ Done.username \notin invalidSessions'
                   /\ invalidSessions' \ {Done.username} = invalidSessions \ {Done.username}
      ]_vars

\* Abe was invalidated, then Alice logged in, was invalidated and logged in again: Alice is
\* out of the set and Abe still in it
C6_Witness ==
    /\ log = <<Invalidated(Abe), Login(Alice), Invalidated(Alice), Login(Alice)>>
    /\ invalidSessions = {Abe}

\* C7: right after a successful logout, getCurrentUsername(ctx) is the empty string.
C7_AnonymousAfterLogout ==
    (log # <<>> /\ LastOp = Logout) => getCurrentUsername = <<>>

C9_NoSessionFails ==
    [][(Stepped /\ Done.op = "setLoggedIn" /\ ~session.present)
          => /\ Done.threw = HTTP_SERVER_ERROR
             /\ UNCHANGED <<invalidSessions, stateAccount, session>>
      ]_vars

\* a login of the invalidated Alice failed for want of a session, and she is still invalidated
C9_Witness ==
    /\ ~session.present
    /\ log = <<Invalidated(Alice), Logged("setLoggedIn", Alice, HTTP_SERVER_ERROR)>>
    /\ Alice \in invalidSessions
    /\ stateAccount = NoAccount

-----------------------------------------------------------------------------
(* Properties of the immediate rejection *)

Called == Len(calls') = Len(calls) + 1
Made == calls'[Len(calls')]

\* C10: a call for a username without account, for an account without srp, or with an
\* empty password returns undefined at once and leaves the cache and its promises alone.
C10_RejectionLeavesCache ==
    [][(Called /\ (\/ getAccount(Made.username) = NoAccount
                   \/ Falsy(getAccount(Made.username).srp)
                   \/ Made.password = <<>>))
          => /\ Made.status = "returned" /\ Made.result = NoAccount /\ Made.h = 0
             /\ UNCHANGED <<cache, hs>>
      ]_vars

\* with the entry of a pending handshake in the cache, a call gave Alice, who has an srp,
\* an empty password: it returned undefined and the entry is still there
C10_Witness ==
    /\ Len(calls) = 2 /\ Len(hs) = 1
    /\ calls[1].h = 1 /\ InFlight(hs[1]) /\ cache[hs[1].k] = 1
    /\ calls[2].password = <<>> /\ ~Falsy(calls[2].account.srp)
    /\ calls[2].h = 0 /\ calls[2].status = "returned" /\ calls[2].result = NoAccount

-----------------------------------------------------------------------------
(* Properties of the result and of the errors of srpCheck *)

\* the call gave a password that the account's well-formed verifier does not accept
WrongPassword(c) ==
    /\ c.account # NoAccount /\ c.password # <<>>
    /\ WellFormed(c.account.srp)
    /\ ~Matches(c.username, c.password, c.account.srp)

\* C11: a call for a username without account and a call with a wrong password for an
\* account with a well-formed srp never throw, and both give undefined once they return.
C11_NoEnumeration ==
    \A i \in CallIds :
        (calls[i].account = NoAccount \/ WrongPassword(calls[i]))
            => /\ calls[i].status # "threw"
               /\ calls[i].status = "returned" => calls[i].result = NoAccount

\* the account's srp has no salt or no verifier
Malformed(account) == srpStep1(account).err = "malformed account"

\* C12: every call with a non-empty password for an account whose srp lacks the salt or
\* the verifier throws srpStep1's error, whether it created the entry or joined one; none
\* returns.
C12_MalformedIsHardError ==
    \A i \in CallIds :
        (calls[i].account # NoAccount /\ Malformed(calls[i].account) /\ calls[i].password # <<>>)
            => /\ calls[i].status # "returned"
               /\ calls[i].status = "threw" => calls[i].err = "malformed account"

-----------------------------------------------------------------------------
(* Properties of the errors of srpStep1 *)

AbsentSrps == {Undefined, <<>>}
MalformedSrps == {OnlySalt, NoSalt, NoVerifier}

Step1Calls == {i \in 1..Len(log) : log[i].op = "srpStep1"}
SrpAt(i) == getAccount(log[i].username).srp

\* C13 as stated: on an absent srp srpStep1 throws an error of the 5xx class, on an srp
\* without salt or verifier it throws the "not acceptable" status.
C13_ErrorKindsAsStated ==
    \A i \in Step1Calls :
        /\ SrpAt(i) \in AbsentSrps => log[i].threw \in 500..599
        /\ SrpAt(i) \in MalformedSrps => log[i].threw = HTTP_NOT_ACCEPTABLE

\* C13 amended: on an absent srp srpStep1 throws HTTP_NOT_ACCEPTABLE, on an srp without
\* salt or verifier it throws the Error "malformed account", which carries no status; the
\* two are never exchanged.
C13_ErrorKinds ==
    \A i \in Step1Calls :
        /\ SrpAt(i) \in AbsentSrps
              => log[i].err = "HTTP_NOT_ACCEPTABLE" /\ log[i].threw = HTTP_NOT_ACCEPTABLE
        /\ SrpAt(i) \in MalformedSrps
              => log[i].err = "malformed account" /\ log[i].threw = 0

\* srpStep1 was called on Abe, who has no srp, and on Alice, whose srp has no verifier
C13_Witness ==
    /\ accounts[Alice].srp = NoVerifier
    /\ log = <<Step1Logged(Abe, "HTTP_NOT_ACCEPTABLE", HTTP_NOT_ACCEPTABLE),
               Step1Logged(Alice, "malformed account", 0)>>

-----------------------------------------------------------------------------
(* Properties of the cache window *)

\* seconds between the first call, which creates the entry, and call j
After(j) == calls[j].at - calls[1].at

\* C14: an identical call made 10 s after the entry was created joins it, and one made
\* 61 s after it finds no entry and starts a handshake of its own, however long srpStep1,
\* srpClientPart and step2 take.
C14_CacheWindow ==
    \A j \in CallIds :
        (j > 1 /\ SameAttempt(1, j))
            => /\ After(j) = 10 => calls[j].h = calls[1].h
               /\ After(j) = 61 => /\ calls[j].h # calls[1].h
                                   /\ hs[calls[j].h].created = calls[j].at

-----------------------------------------------------------------------------
(* Properties of the eviction *)

\* C15: when the timer deletes the entry of a handshake still pending, the calls awaiting
\* it are left as they are and the handshake goes on; when that handshake settles, every
\* call that created or joined the entry returns its outcome: the account when the
\* handshake's password matches its verifier, undefined when it does not.
C15_EvictionLeavesCallers ==
    [][\A i \in 1..Len(hs) :
          /\ (hs[i].timer = "armed" /\ hs'[i].timer = "fired" /\ InFlight(hs[i]))
                => calls' = calls /\ hs'[i].phase = hs[i].phase
          /\ (hs[i].timer = "fired" /\ InFlight(hs[i]) /\ Settled(hs'[i]))
                => \A c \in CallIds :
                      calls[c].h = i
                          => /\ calls'[c].status = "returned"
                             /\ calls'[c].result =
                                   IF Matches(hs[i].username, hs[i].password, hs[i].srp)
                                   THEN calls[c].account ELSE NoAccount
      ]_vars

\* Alice's first call was still awaiting when the timer of its entry had fired and a second
\* call was made; the first call then returned her account
C15_Witness ==
    /\ Len(calls) = 2 /\ calls[1].h # 0
    /\ 1 \in calls[2].pendingAt /\ calls[1].h \in calls[2].firedAt
    /\ calls[1].status = "returned" /\ calls[1].result = Account(Alice, AliceSrp)

-----------------------------------------------------------------------------
(* Properties of the bound identity *)

\* C16: right after a successful setLoggedIn(ctx, username) with a string username,
\* getCurrentUsername(ctx) is the identity stored in the session, normalizeUsername(username),
\* whether or not getAccount(username) finds an account.
C16_CurrentIsBound ==
    (log # <<>> /\ LastOp.op = "setLoggedIn" /\ LastOp.threw = 0 /\ LastOp.username # False)
        => /\ session.username = normalizeUsername(LastOp.username)
           /\ getCurrentUsername = session.username

-----------------------------------------------------------------------------
(* Properties of the cache key *)

\* the calls that went past the immediate rejection and looked their key up
Keyed == {i \in CallIds : calls[i].h # 0}
Triple(i) == <<calls[i].username, calls[i].password, calls[i].account.srp>>
KeyOf(i) == CacheKey(calls[i].username, calls[i].password, calls[i].account)

\* C17: two calls whose (username, password, account.srp) differ never get the same cache
\* key, and so never share a handshake.
C17_FingerprintUnique ==
    \A i, j \in Keyed :
        Triple(i) # Triple(j) => KeyOf(i) # KeyOf(j) /\ calls[i].h # calls[j].h

\* C18: of two calls with the same username and password made under different srp strings
\* of the account, the later one gets another key, does not join the handshake of the
\* earlier one, and awaits a handshake started from the srp it found: its salt, its verifier.
C18_SrpChangeStartsAfresh ==
    \A i, j \in Keyed :
        (i < j /\ calls[i].username = calls[j].username /\ calls[i].password = calls[j].password
               /\ calls[i].account.srp # calls[j].account.srp)
            => /\ KeyOf(i) # KeyOf(j)
               /\ calls[j].h # calls[i].h
               /\ hs[calls[j].h].srp = calls[j].account.srp
               /\ hs[calls[j].h].salt = At(split(calls[j].account.srp, "|"), 1)
               /\ hs[calls[j].h].verifier = At(split(calls[j].account.srp, "|"), 2)

\* Alice's password "bb" was accepted, her srp was replaced, and the same password was then
\* refused by a second handshake, run against the new verifier
C18_Witness ==
    /\ Len(calls) = 2 /\ Len(hs) = 2
    /\ calls[1].username = Alice /\ calls[1].password = BB /\ calls[1].account.srp = AliceSrp
    /\ calls[2].username = Alice /\ calls[2].password = BB /\ calls[2].account.srp = AliceNewSrp
    /\ calls[1].h = 1 /\ calls[1].result = Account(Alice, AliceSrp)
    /\ calls[2].h = 2 /\ calls[2].status = "returned" /\ calls[2].result = NoAccount

-----------------------------------------------------------------------------
(* Properties of the protocol order *)

\* C19: every promise of the cache has its own server session, made by the one srpStep1 call
\* of its creator; step2 is called on it at most once, and only when srpStep1 did not throw
\* and has completed; each cache entry holds the promise made for its key, and no two
\* entries hold the same one.
C19_ProtocolOrder ==
    /\ \A i \in HandshakeIds :
          /\ hs[i].step1Calls = 1
          /\ hs[i].step2Calls <= 1
          /\ hs[i].step2Calls = 1 <=> hs[i].phase \in {"step2", "resolved"}
          /\ hs[i].step2Calls = 1 => hs[i].err = ""
          /\ hs[i].phase = "rejected" <=> hs[i].err # ""
    /\ \A k \in DOMAIN cache : cache[k] \in HandshakeIds /\ hs[cache[k]].k = k
    /\ \A k1, k2 \in DOMAIN cache : cache[k1] = cache[k2] => k1 = k2

\* two calls shared the entry of a handshake that has settled: srpStep1 and step2 were each
\* called once for it
C19_Witness ==
    /\ Len(calls) = 2 /\ calls[1].h = 1 /\ calls[2].h = 1
    /\ hs[1].phase = "resolved" /\ hs[1].step1Calls = 1 /\ hs[1].step2Calls = 1
    /\ calls[1].status = "returned" /\ calls[2].status = "returned"

-----------------------------------------------------------------------------
(* Properties of the frame of srpCheck *)

\* C20: a step of srpCheck (the call, or a continuation of its handshake) leaves
\* ctx.session, ctx.state.account and invalidSessions as they were, and ctx.session and
\* ctx.state.account change in a setLoggedIn call only.
C20_SrpCheckKeepsSession ==
    [][/\ (calls' # calls \/ hs' # hs \/ cache' # cache)
             => UNCHANGED <<session, stateAccount, invalidSessions>>
       /\ (session' # session \/ stateAccount' # stateAccount)
             => Stepped /\ Done.op = "setLoggedIn"
      ]_vars

\* Alice was invalidated and her password was then verified: the call returned her account,
\* she is still in invalidSessions and the session holds no username
C20_Witness ==
    /\ log = <<Invalidated(Alice)>>
    /\ Len(calls) = 1 /\ calls[1].status = "returned"
    /\ calls[1].result = Account(Alice, AliceSrp)
    /\ Alice \in invalidSessions
    /\ session.username = Undefined /\ stateAccount = NoAccount

-----------------------------------------------------------------------------
(* Properties of the timer callback *)

\* C21: when the timer scheduled by handshake i for its key runs, the entry under that key,
\* if there is one, is the promise of handshake i, never one made later for the same key;
\* the callback removes that key and no other.
C21_TimerDeletesOwnEntry ==
    [][\A i \in 1..Len(hs) :
          (hs[i].timer = "armed" /\ (hs'[i].timer = "fired" \/ hs'[i].due # hs[i].due))
              => /\ hs[i].k \in DOMAIN cache => cache[hs[i].k] = i
                 /\ DOMAIN cache' = DOMAIN cache \ {hs[i].k}
      ]_vars

\* two handshakes were run one after the other for one key, and the timer of each has run:
\* the first deleted the first entry before the second was made, the second its own
C21_Witness ==
    /\ Len(hs) = 2 /\ hs[1].k = hs[2].k
    /\ hs[1].timer = "fired" /\ hs[2].timer = "fired"
    /\ hs[1].due <= hs[2].created
    /\ DOMAIN cache = {}

====
